---- MODULE Spec2Model ----
(***************************************************************************)
(* vllm-grpc-client: the streaming response accumulator (GenerateStream /  *)
(* AsyncGenerateStream, _streaming.py) and the collecting loop of          *)
(* completions.create(stream=False) (resources/completions.py).            *)
(*                                                                         *)
(* One Generate call is modelled.  The transport delivers the call's       *)
(* response messages one at a time; each delivered message is consumed by  *)
(* the accumulator's __next__ and, side by side, by one iteration of the   *)
(* collecting loop of create(stream=False), so that the two consumers can  *)
(* be compared on every message sequence.  The sync and the async classes  *)
(* have the same _process_response and the same create body, so one model  *)
(* stands for both.                                                        *)
(*                                                                         *)
(* Optional[X] is modelled as a sequence of length at most one: None is    *)
(* << >> and a present value x is << x >>.                                 *)
(***************************************************************************)
EXTENDS Integers, Sequences, FiniteSets, TLC

None == << >>
Some(x) == << x >>

\* ------------------------------------------------------------------ bounds
\* Messages the transport delivers for one call (pulls of a message).
MaxMsgs == 3

\* ------------------------------------------------------------- input sets
\* Token-id lists a message can carry: empty, one id, several ids.
TokenLists == { << >>, << 1 >>, << 2, 3 >> }
\* (prompt_tokens, cached_tokens) of a message: 0 is the proto default, and
\* the cached tokens are among the prompt tokens.
PromptCached == { << 0, 0 >>, << 1, 0 >>, << 1, 1 >> }
\* completion_tokens a terminal message reports: it agrees with the length of
\* the message's output ids of TokenLists for one of them and not for the others.
ReportedCounts == {2}
\* finish_reason of a terminal message ("" is the proto default: omitted).
FinishReasons == {"", "abort"}
\* request_id argument of create: None, or a caller-supplied string.
RequestIdArgs == {None, Some("cmpl-abc")}
\* values of f"cmpl-{uuid.uuid4().hex[:24]}"
GeneratedIds == {"cmpl-0f3a"}
\* client._model_name when create is called: the name wait_for_ready stored
\* (it is "" on a client that never refreshed it).
ModelNames == {"llama"}
\* grpc.StatusCode members an RpcError can carry.
StatusCodes == {"OK", "CANCELLED", "UNKNOWN", "INVALID_ARGUMENT", "DEADLINE_EXCEEDED",
                "NOT_FOUND", "ALREADY_EXISTS", "PERMISSION_DENIED",
                "RESOURCE_EXHAUSTED", "FAILED_PRECONDITION", "ABORTED",
                "OUT_OF_RANGE", "UNIMPLEMENTED", "INTERNAL", "UNAVAILABLE",
                "DATA_LOSS", "UNAUTHENTICATED"}
\* status codes with which the Generate call of the model fails mid-stream.
StreamFailCodes == {"DEADLINE_EXCEEDED", "UNKNOWN"}
\* error.details() of an RpcError.
DetailTexts == {"boom"}

\* --------------------------------------------------------- wire messages
\* GenerateResponse: oneof {chunk, complete}, or neither set.  Fields of the
\* arm that is not set read as the proto defaults.
ChunkMsg(ids, p, c) ==
    [kind |-> "chunk", ids |-> ids, prompt_tokens |-> p, completion_tokens |-> 0,
     cached_tokens |-> c, finish_reason |-> ""]

CompleteMsg(ids, p, n, c, fr) ==
    [kind |-> "complete", ids |-> ids, prompt_tokens |-> p, completion_tokens |-> n,
     cached_tokens |-> c, finish_reason |-> fr]

EmptyMsg ==
    [kind |-> "none", ids |-> << >>, prompt_tokens |-> 0, completion_tokens |-> 0,
     cached_tokens |-> 0, finish_reason |-> ""]

ChunkMsgs == { ChunkMsg(ids, pc[1], pc[2]) : ids \in TokenLists, pc \in PromptCached }

CompleteMsgs ==
    { CompleteMsg(ids, pc[1], n, pc[2], fr) :
        ids \in TokenLists, pc \in PromptCached, n \in ReportedCounts, fr \in FinishReasons }

Messages == ChunkMsgs \cup CompleteMsgs \cup {EmptyMsg}

\* ------------------------------------------------------- error classifier
\* (variant of ErrorKind: the CANCELLED and UNIMPLEMENTED branches are missing)
ErrorKind_FewerBranches(code) ==
    CASE code = "UNAVAILABLE"       -> "VLLMGrpcUnavailableError"
      [] code = "DEADLINE_EXCEEDED" -> "VLLMGrpcTimeoutError"
      [] code = "INVALID_ARGUMENT"  -> "VLLMGrpcInvalidArgumentError"
      [] code = "ABORTED"           -> "VLLMGrpcAbortedError"
      [] code = "INTERNAL"          -> "VLLMGrpcInternalError"
      [] OTHER                      -> "VLLMGrpcError"

\* _exception_from_grpc_error: the VLLMGrpcError subclass for a status code.
ErrorKind(code) ==
    CASE code = "UNAVAILABLE"       -> "VLLMGrpcUnavailableError"
      [] code = "DEADLINE_EXCEEDED" -> "VLLMGrpcTimeoutError"
      [] code = "INVALID_ARGUMENT"  -> "VLLMGrpcInvalidArgumentError"
      [] code = "ABORTED"           -> "VLLMGrpcAbortedError"
      [] code = "UNIMPLEMENTED"     -> "VLLMGrpcUnimplementedError"
      [] code = "INTERNAL"          -> "VLLMGrpcInternalError"
      [] code = "CANCELLED"         -> "VLLMGrpcCancelledError"
      [] OTHER                      -> "VLLMGrpcError"

exception_from_grpc_error(code, details) ==
    [kind |-> ErrorKind(code), code |-> code, details |-> details]

\* ------------------------------------------------------------ typed values
\* _types.CompletionUsage
CompletionUsage(p, n, t, c) ==
    [prompt_tokens |-> p, completion_tokens |-> n, total_tokens |-> t, cached_tokens |-> c]

\* _types.CompletionChoice
CompletionChoice(ids, fr) == [index |-> 0, token_ids |-> ids, finish_reason |-> fr]

\* _types.Completion; choices defaults to [] and usage to None.
Completion(id, model, choices, usage) ==
    [id |-> id, model |-> model, choices |-> choices, usage |-> usage]

\* _types.CompletionChunkChoice; finish_reason defaults to None.
CompletionChunkChoice(ids, fr) == [index |-> 0, delta_token_ids |-> ids, finish_reason |-> fr]

\* _types.CompletionChunk; choices defaults to [] and usage to None.
CompletionChunk(id, model, choices, usage) ==
    [id |-> id, model |-> model, choices |-> choices, usage |-> usage]

\* Python's `x or y` on integers and on strings.
OrInt(x, y) == IF x # 0 THEN x ELSE y
OrStr(x, y) == IF x # "" THEN x ELSE y

\* ----------------------------------------------------------------- state
VARIABLES
    model_name,               \* client._model_name
    request_id_arg,           \* the request_id argument of the create call
    request_id,               \* create's local request_id after it is resolved
    grpc_request,             \* the GenerateRequest handed to stub.Generate
    transport,                \* the response iterator: idle, open, exhausted, failed
    stream_request_id,        \* GenerateStream._request_id
    stream_model,             \* GenerateStream._model
    final_completion,         \* GenerateStream._final_completion
    accumulated_token_ids,    \* GenerateStream._accumulated_token_ids
    total_prompt_tokens,      \* GenerateStream._total_prompt_tokens
    total_completion_tokens,  \* GenerateStream._total_completion_tokens
    cached_tokens,            \* GenerateStream._cached_tokens
    final_response,           \* final_response of create(stream=False)'s loop
    create_ret,               \* how create(stream=False) ended: returned value or raised error
    ret,                      \* how the last accumulator operation ended
    \* history of the call, recorded for the properties
    kinds,                    \* kinds of the messages pulled, in arrival order
    pulled_ids,               \* token ids of the messages pulled, concatenated in arrival order
    yielded_ids,              \* deltas of the chunks yielded by next(), concatenated in yield order
    last_msg,                 \* the message pulled last
    last_chunk_msg,           \* the partial-chunk message pulled last
    terminal_msg,             \* the terminal message that made the stored final completion
    chunk_before_terminal,    \* last_chunk_msg when that terminal message was pulled
    \* the unary facade operations (health, models, embeddings)
    rpc_calls,                \* the unary calls issued on the stub, in order
    rpc_error,                \* the grpc.RpcError the last unary call raised (None: it replied)
    facade_ret,               \* how the last facade operation ended
    \* two streams made by separate create(stream=True) calls
    streams,                  \* stream -> its GenerateStream object (None before create)
    iterators,                \* stream -> state of its response iterator
    delivered,                \* stream -> the messages its iterator has delivered, in order
    chunks,                   \* stream -> the chunks its next() has yielded, in order
    finals,                   \* stream -> what its last get_final_completion() returned
    \* the request builder
    build_args,               \* the arguments of the completions.create call (None: no call)
    \* the client object: construction, scoped use, health polling
    ctor,                     \* the constructor arguments and the environment (None: not chosen)
    config,                   \* the resolved _host, _port, _timeout (None: not constructed)
    channel,                  \* the gRPC channel: none, open, closed
    block,                    \* the `with` block around the client
    client_ret,               \* how the last client operation ended
    last_check,               \* the outcome of the last health.check an is_healthy made
    now,                      \* time.time(), in seconds
    wait,                     \* the running wait_for_ready call
    probes                    \* the is_healthy probes of that call, in order

clientVars == << model_name, request_id_arg, request_id, grpc_request >>
streamVars == << stream_request_id, stream_model, final_completion, accumulated_token_ids,
                 total_prompt_tokens, total_completion_tokens, cached_tokens >>
collectVars == << final_response, create_ret >>
historyVars == << kinds, pulled_ids, yielded_ids, last_msg, last_chunk_msg, terminal_msg,
                  chunk_before_terminal >>
facadeVars == << rpc_calls, rpc_error, facade_ret >>
\* The state outside the streamed Generate call.
twoVars == << streams, iterators, delivered, chunks, finals >>
buildVars == << build_args >>
cliVars == << ctor, config, channel, block, client_ret, last_check, now, wait, probes >>
otherVars == << facadeVars, twoVars, buildVars, cliVars >>
vars == << clientVars, transport, streamVars, collectVars, ret, historyVars, otherVars >>

\* How an operation ended.
Ret(op, outcome, chunk, completion, error) ==
    [op |-> op, outcome |-> outcome, chunk |-> chunk, completion |-> completion, error |-> error]

Transport(state, code, details) == [state |-> state, code |-> code, details |-> details]

\* ------------------------------------------------- GenerateStream methods
\* _process_response, chunk arm: the fold into the running state.
AccumulatedAfterChunk(acc, token_ids) == acc \o token_ids
\* (variant of CompletionTokensAfterChunk: one per message)
CompletionTokensAfterChunk_PerMessage(total, token_ids) == total + 1
CompletionTokensAfterChunk(total, token_ids) == total + Len(token_ids)

\* (variant of PartialDelta: the chunk carries the running concatenation)
PartialDelta_RunningTotal(acc_after, token_ids) == acc_after

\* _process_response, chunk arm: the delta of the chunk that is yielded.
PartialDelta(acc_after, token_ids) == token_ids

\* _process_response, chunk arm: the chunk that is returned.
PartialChunk(rid, model, acc_after, chunk) ==
    CompletionChunk(rid, model,
        << CompletionChunkChoice(PartialDelta(acc_after, chunk.ids), None) >>,
        Some(CompletionUsage(chunk.prompt_tokens,
                             Len(chunk.ids),
                             chunk.prompt_tokens + Len(chunk.ids),
                             chunk.cached_tokens)))

\* (variant of FinishReasonOf: no default for an omitted finish reason)
FinishReasonOf_NoDefault(finish_reason) == finish_reason

\* finish_reason=complete.finish_reason or "stop"
FinishReasonOf(finish_reason) == OrStr(finish_reason, "stop")

\* (variant of FinalTokenIds: the accumulated ids are left out)
FinalTokenIds_OutputOnly(acc, output_ids) == output_ids

\* token_ids=self._accumulated_token_ids + list(complete.output_ids)
FinalTokenIds(acc, output_ids) == acc \o output_ids

\* (variant of FinalPromptTokens: no fallback to the last-seen value)
FinalPromptTokens_NoFallback(complete_prompt, total_prompt) == complete_prompt

\* prompt_tokens=complete.prompt_tokens or self._total_prompt_tokens
FinalPromptTokens(complete_prompt, total_prompt) == OrInt(complete_prompt, total_prompt)

\* cached_tokens=complete.cached_tokens or self._cached_tokens
FinalCachedTokens(complete_cached, cached) == OrInt(complete_cached, cached)

\* (variant of FinalCompletion: id= is not passed, so the field's default factory
\* makes a fresh id)
FinalCompletion_DefaultId(rid, model, acc, total_prompt, total_completion, cached, complete) ==
    Completion("cmpl-default", model,
        << CompletionChoice(FinalTokenIds(acc, complete.ids),
                            FinishReasonOf(complete.finish_reason)) >>,
        Some(CompletionUsage(
            FinalPromptTokens(complete.prompt_tokens, total_prompt),
            total_completion + Len(complete.ids),
            FinalPromptTokens(complete.prompt_tokens, total_prompt)
                + total_completion + Len(complete.ids),
            FinalCachedTokens(complete.cached_tokens, cached))))

\* _process_response, complete arm: the Completion that is stored.
FinalCompletion(rid, model, acc, total_prompt, total_completion, cached, complete) ==
    Completion(rid, model,
        << CompletionChoice(FinalTokenIds(acc, complete.ids),
                            FinishReasonOf(complete.finish_reason)) >>,
        Some(CompletionUsage(
            FinalPromptTokens(complete.prompt_tokens, total_prompt),
            total_completion + Len(complete.ids),
            FinalPromptTokens(complete.prompt_tokens, total_prompt)
                + total_completion + Len(complete.ids),
            FinalCachedTokens(complete.cached_tokens, cached))))

\* _process_response, complete arm: the chunk that is returned.
FinalChunk(rid, model, complete) ==
    CompletionChunk(rid, model,
        << CompletionChunkChoice(complete.ids, Some(FinishReasonOf(complete.finish_reason))) >>,
        Some(CompletionUsage(complete.prompt_tokens,
                             Len(complete.ids),
                             complete.prompt_tokens + Len(complete.ids),
                             complete.cached_tokens)))

\* (variant of EmptyChunk: the chunk carries an empty choice)
EmptyChunk_WithChoice(rid, model) ==
    CompletionChunk(rid, model, << CompletionChunkChoice(<< >>, None) >>, None)

\* _process_response, else arm: the empty chunk.
EmptyChunk(rid, model) == CompletionChunk(rid, model, << >>, None)

\* _process_response: the chunk returned for a message, given the running
\* concatenation after the fold.
ProcessedChunk(rid, model, acc_after, msg) ==
    CASE msg.kind = "chunk"    -> PartialChunk(rid, model, acc_after, msg)
      [] msg.kind = "complete" -> FinalChunk(rid, model, msg)
      [] OTHER                 -> EmptyChunk(rid, model)

\* --------------------------------------------- create(stream=False)'s loop
\* (variant of CollectStep: the HasField test is left out)
CollectStep_AnyMessage(prev, msg) == Some(msg)

\* if response.HasField("complete"): final_response = response.complete
CollectStep(prev, msg) == IF msg.kind = "complete" THEN Some(msg) ELSE prev

\* The Completion create(stream=False) returns when the iterator is exhausted.
CollectedCompletion(rid, model, final) ==
    IF final = None
    THEN Completion(rid, model, << >>, None)
    ELSE Completion(rid, model,
            << CompletionChoice(final[1].ids, OrStr(final[1].finish_reason, "stop")) >>,
            Some(CompletionUsage(final[1].prompt_tokens,
                                 final[1].completion_tokens,
                                 final[1].prompt_tokens + final[1].completion_tokens,
                                 final[1].cached_tokens)))

\* (variant of ResolveRequestId: a fresh id is generated even when one is supplied)
ResolveRequestId_AlwaysFresh(arg, generated) == generated

\* if request_id is None: request_id = f"cmpl-{uuid.uuid4().hex[:24]}"
ResolveRequestId(arg, generated) == IF arg = None THEN generated ELSE arg[1]

\* ------------------------------------------------------------------ Init
NoRet == Ret("none", "none", None, None, None)

\* No facade operation has been called.
FacadeInit ==
    /\ rpc_calls = << >>
    /\ rpc_error = None
    /\ facade_ret = NoRet

\* The two streams of the interleaving model: none has been created.
StreamIds == { 1, 2 }
TwoInit ==
    /\ streams = [s \in StreamIds |-> None]
    /\ iterators = [s \in StreamIds |-> "idle"]
    /\ delivered = [s \in StreamIds |-> << >>]
    /\ chunks = [s \in StreamIds |-> << >>]
    /\ finals = [s \in StreamIds |-> None]

\* The client, no create call made, no stream.
OneInit ==
    /\ model_name \in ModelNames
    /\ request_id_arg = None
    /\ request_id = ""
    /\ grpc_request = None
    /\ transport = Transport("idle", "", "")
    /\ stream_request_id = ""
    /\ stream_model = ""
    /\ final_completion = None
    /\ accumulated_token_ids = << >>
    /\ total_prompt_tokens = 0
    /\ total_completion_tokens = 0
    /\ cached_tokens = 0
    /\ final_response = None
    /\ create_ret = None
    /\ ret = NoRet
    /\ kinds = << >>
    /\ pulled_ids = << >>
    /\ yielded_ids = << >>
    /\ last_msg = None
    /\ last_chunk_msg = None
    /\ terminal_msg = None
    /\ chunk_before_terminal = None

\* How a client operation ended: the value is the boolean an operation
\* returned (FALSE for the ones that return none).
ClientRet(op, outcome, value) == [op |-> op, outcome |-> outcome, value |-> value]
Wait(pc, start_time, timeout, poll_interval, refreshes) ==
    [pc |-> pc, start_time |-> start_time, timeout |-> timeout,
     poll_interval |-> poll_interval, refreshes |-> refreshes]
Block(state, how, raised) == [state |-> state, how |-> how, raised |-> raised]

\* No client has been constructed.
ClientInit ==
    /\ config = None
    /\ channel = "none"
    /\ block = Block("out", "", FALSE)
    /\ client_ret = ClientRet("none", "none", FALSE)
    /\ last_check = None
    /\ now = 0
    /\ wait = Wait("idle", 0, 0, 0, << >>)
    /\ probes = << >>

Init ==
    /\ FacadeInit
    /\ TwoInit
    /\ build_args = None
    /\ ctor = None
    /\ ClientInit
    /\ OneInit

\* --------------------------------------------------------------- actions
\* completions.create up to the Generate call: the request id is resolved,
\* the wire request is built, the call is issued and the response iterator
\* is wrapped in a GenerateStream (GenerateStream.__init__).
Create(arg, generated) ==
    /\ transport.state = "idle"
    /\ request_id_arg' = arg
    /\ request_id' = ResolveRequestId(arg, generated)
    /\ grpc_request' = Some([request_id |-> request_id'])
    /\ transport' = Transport("open", "", "")
    /\ stream_request_id' = request_id'
    /\ stream_model' = model_name
    /\ final_completion' = None
    /\ accumulated_token_ids' = << >>
    /\ total_prompt_tokens' = 0
    /\ total_completion_tokens' = 0
    /\ cached_tokens' = 0
    /\ final_response' = None
    /\ UNCHANGED << model_name, create_ret, ret, historyVars >>
    /\ UNCHANGED otherVars

\* GenerateStream.__next__ when the iterator delivers msg: _process_response
\* folds it and returns its chunk.  The loop of create(stream=False) reads
\* the same message.
NextMessage(msg) ==
    /\ transport.state = "open"
    /\ Len(kinds) < MaxMsgs
    /\ accumulated_token_ids' =
          IF msg.kind = "chunk"
          THEN AccumulatedAfterChunk(accumulated_token_ids, msg.ids)
          ELSE accumulated_token_ids
    /\ total_prompt_tokens' =
          IF msg.kind = "chunk" THEN msg.prompt_tokens ELSE total_prompt_tokens
    /\ total_completion_tokens' =
          IF msg.kind = "chunk"
          THEN CompletionTokensAfterChunk(total_completion_tokens, msg.ids)
          ELSE total_completion_tokens
    /\ cached_tokens' =
          IF msg.kind = "chunk" THEN msg.cached_tokens ELSE cached_tokens
    /\ final_completion' =
          IF msg.kind = "complete"
          THEN Some(FinalCompletion(stream_request_id, stream_model, accumulated_token_ids,
                                    total_prompt_tokens, total_completion_tokens,
                                    cached_tokens, msg))
          ELSE final_completion
    /\ ret' = Ret("next", "chunk",
                  Some(ProcessedChunk(stream_request_id, stream_model,
                                      accumulated_token_ids', msg)),
                  None, None)
    /\ final_response' = CollectStep(final_response, msg)
    /\ kinds' = Append(kinds, msg.kind)
    /\ pulled_ids' = pulled_ids \o msg.ids
    /\ yielded_ids' =
          IF ret'.chunk[1].choices = << >>
          THEN yielded_ids
          ELSE yielded_ids \o ret'.chunk[1].choices[1].delta_token_ids
    /\ last_msg' = Some(msg)
    /\ last_chunk_msg' = IF msg.kind = "chunk" THEN Some(msg) ELSE last_chunk_msg
    /\ terminal_msg' = IF msg.kind = "complete" THEN Some(msg) ELSE terminal_msg
    /\ chunk_before_terminal' =
          IF msg.kind = "complete" THEN last_chunk_msg ELSE chunk_before_terminal
    /\ UNCHANGED << clientVars, transport, stream_request_id, stream_model, create_ret >>
    /\ UNCHANGED otherVars

\* (variant of NextStop: a next() on the exhausted iterator starts it again)
NextStop_Restarts ==
    /\ transport.state \in {"open", "exhausted"}
    /\ transport' =
          IF transport.state = "exhausted"
          THEN Transport("open", "", "")
          ELSE Transport("exhausted", "", "")
    /\ ret' = Ret("next", "StopIteration", None, None, None)
    /\ create_ret' =
          IF create_ret = None
          THEN Some(Ret("create", "return", None,
                        Some(CollectedCompletion(request_id, model_name, final_response)),
                        None))
          ELSE create_ret
    /\ UNCHANGED << clientVars, streamVars, final_response, historyVars >>
    /\ UNCHANGED otherVars

\* GenerateStream.__next__ when the iterator is exhausted: StopIteration is
\* re-raised.  The loop of create(stream=False) ends and create returns.
NextStop ==
    /\ transport.state \in {"open", "exhausted"}
    /\ transport' = Transport("exhausted", "", "")
    /\ ret' = Ret("next", "StopIteration", None, None, None)
    /\ create_ret' =
          IF create_ret = None
          THEN Some(Ret("create", "return", None,
                        Some(CollectedCompletion(request_id, model_name, final_response)),
                        None))
          ELSE create_ret
    /\ UNCHANGED << clientVars, streamVars, final_response, historyVars >>
    /\ UNCHANGED otherVars

\* (variant of NextError: the accumulator is reset when the transport fails)
NextError_Resets(code, details) ==
    /\ \/ transport.state = "open"
       \/ transport.state = "failed" /\ transport.code = code /\ transport.details = details
    /\ transport' = Transport("failed", code, details)
    /\ ret' = Ret("next", "raise", None, None, Some(exception_from_grpc_error(code, details)))
    /\ create_ret' =
          IF create_ret = None
          THEN Some(Ret("create", "raise", None, None,
                        Some(exception_from_grpc_error(code, details))))
          ELSE create_ret
    /\ accumulated_token_ids' = << >>
    /\ total_completion_tokens' = 0
    /\ final_completion' = None
    /\ UNCHANGED << clientVars, stream_request_id, stream_model, total_prompt_tokens,
                    cached_tokens, final_response, historyVars >>
    /\ UNCHANGED otherVars

\* GenerateStream.__next__ when the iterator raises grpc.RpcError: the
\* classified error is raised.  create(stream=False) raises it as well.
NextError(code, details) ==
    /\ \/ transport.state = "open"
       \/ transport.state = "failed" /\ transport.code = code /\ transport.details = details
    /\ transport' = Transport("failed", code, details)
    /\ ret' = Ret("next", "raise", None, None, Some(exception_from_grpc_error(code, details)))
    /\ create_ret' =
          IF create_ret = None
          THEN Some(Ret("create", "raise", None, None,
                        Some(exception_from_grpc_error(code, details))))
          ELSE create_ret
    /\ UNCHANGED << clientVars, streamVars, final_response, historyVars >>
    /\ UNCHANGED otherVars

\* (variant of get_final_completion: the stored completion is handed over and dropped)
get_final_completion_Takes ==
    /\ transport.state # "idle"
    /\ ret' = Ret("get_final_completion", "return", None, final_completion, None)
    /\ final_completion' = None
    /\ UNCHANGED << clientVars, transport, stream_request_id, stream_model,
                    accumulated_token_ids, total_prompt_tokens, total_completion_tokens,
                    cached_tokens, collectVars, historyVars >>
    /\ UNCHANGED otherVars

\* GenerateStream.get_final_completion
get_final_completion ==
    /\ transport.state # "idle"
    /\ ret' = Ret("get_final_completion", "return", None, final_completion, None)
    /\ UNCHANGED << clientVars, transport, streamVars, collectVars, historyVars >>
    /\ UNCHANGED otherVars

Next ==
    \/ \E arg \in RequestIdArgs, generated \in GeneratedIds : Create(arg, generated)
    \/ \E msg \in Messages : NextMessage(msg)
    \/ NextStop
    \/ \E code \in StreamFailCodes, details \in DetailTexts : NextError(code, details)
    \/ get_final_completion

Spec == Init /\ [][Next]_vars

\* ------------------------------------------------------------- properties
\* The messages pulled so far form a completed stream as the data model
\* defines it: exactly one terminal message, and it is the last one.
OneTerminalLast ==
    /\ kinds # << >>
    /\ kinds[Len(kinds)] = "complete"
    /\ \A i \in 1 .. (Len(kinds) - 1) : kinds[i] # "complete"

NoTerminalPulled == \A i \in 1 .. Len(kinds) : kinds[i] # "complete"

StoredFinal == final_completion[1]

\* C1: after N >= 0 non-terminal messages followed by one terminal message have
\* been pulled, the stored final completion holds the token ids of all the
\* messages concatenated in arrival order (the terminal output ids last), and
\* its usage.completion_tokens is the sum of the messages' token-id counts.
C1_FinalIsConcatenation ==
    OneTerminalLast =>
        /\ final_completion # None
        /\ Len(StoredFinal.choices) = 1
        /\ StoredFinal.choices[1].token_ids = pulled_ids
        /\ StoredFinal.usage # None
        /\ StoredFinal.usage[1].completion_tokens = Len(pulled_ids)

\* C1 witness: two non-terminal messages [1], [2,3] and the terminal message [1].
C1_Witness ==
    /\ kinds = << "chunk", "chunk", "complete" >>
    /\ final_completion # None
    /\ StoredFinal.choices[1].token_ids = << 1, 2, 3, 1 >>
    /\ StoredFinal.usage[1].completion_tokens = 4

\* C2: the chunk next() yields for a pulled partial or terminal message carries
\* exactly that message's token ids as its delta, with usage.completion_tokens
\* the delta's length; and when the terminal message of a stream has been
\* yielded, the deltas of all the chunks yielded, concatenated in yield order,
\* are the token ids of the stored final completion.
C2_ViewsConsistent ==
    /\ (ret.op = "next" /\ ret.outcome = "chunk" /\ last_msg[1].kind # "none") =>
          /\ Len(ret.chunk[1].choices) = 1
          /\ ret.chunk[1].choices[1].delta_token_ids = last_msg[1].ids
          /\ ret.chunk[1].usage # None
          /\ ret.chunk[1].usage[1].completion_tokens = Len(last_msg[1].ids)
    /\ OneTerminalLast =>
          /\ final_completion # None
          /\ yielded_ids = StoredFinal.choices[1].token_ids

\* C2 witness: the terminal chunk [2,3] has just been yielded after the chunks
\* [1] and [2,3].
C2_Witness ==
    /\ kinds = << "chunk", "chunk", "complete" >>
    /\ ret.op = "next" /\ ret.outcome = "chunk"
    /\ ret.chunk[1].choices[1].delta_token_ids = << 2, 3 >>
    /\ yielded_ids = << 1, 2, 3, 2, 3 >>
    /\ StoredFinal.choices[1].token_ids = << 1, 2, 3, 2, 3 >>

\* What create(stream=False) returned, when it has returned.
CreateReturned == create_ret # None /\ create_ret[1].outcome = "return"
Returned == create_ret[1].completion[1]

\* C3: every result with a choice that create(stream=False) returns has
\* usage.completion_tokens equal to the number of token ids of its choice.
C3_NonStreamingCountIsLength ==
    (CreateReturned /\ Returned.choices # << >>) =>
        /\ Returned.usage # None
        /\ Returned.usage[1].completion_tokens = Len(Returned.choices[1].token_ids)

\* C4: when the message sequence ends in a terminal message and the iterator is
\* exhausted, the result create(stream=False) returns has the token ids, the
\* finish reason and the usage of the final completion the accumulator stored
\* for the same sequence.
C4_NonStreamingEqualsFinal ==
    (CreateReturned /\ kinds # << >> /\ kinds[Len(kinds)] = "complete") =>
        /\ final_completion # None
        /\ Returned.choices = StoredFinal.choices
        /\ Returned.usage = StoredFinal.usage

\* C5: while no terminal message has been delivered, (a) no final completion is
\* stored and get_final_completion returns None, also after the iterator is
\* exhausted, and next() on the exhausted iterator yields no chunk; (b) when the
\* iterator is exhausted create(stream=False) has returned, not raised, a
\* Completion with the request id, the client's model name, no choices and no
\* usage.
C5_NoTerminalDegraded ==
    NoTerminalPulled =>
        /\ final_completion = None
        /\ ret.op = "get_final_completion" => ret.completion = None
        /\ (transport.state = "exhausted" /\ ret.op = "next") =>
              (ret.outcome = "StopIteration" /\ ret.chunk = None)
        /\ transport.state = "exhausted" =>
              /\ CreateReturned
              /\ Returned = Completion(request_id, model_name, << >>, None)

\* C5 witness: two partial chunks, then exhaustion, then get_final_completion.
C5_Witness ==
    /\ kinds = << "chunk", "chunk" >>
    /\ transport.state = "exhausted"
    /\ ret.op = "get_final_completion" /\ ret.completion = None
    /\ CreateReturned /\ Returned.choices = << >> /\ Returned.id = "cmpl-abc"

\* C6: get_final_completion returns None as long as no terminal message has been
\* pulled (also before the first pull); once one has been pulled it returns a
\* completion whose id is the request id the accumulator was given; and two
\* calls with no next() in between return equal results.
C6_State ==
    ret.op = "get_final_completion" =>
        /\ NoTerminalPulled => ret.completion = None
        /\ ~NoTerminalPulled => (ret.completion # None /\ ret.completion[1].id = request_id)

C6_Repeat ==
    (ret.op = "get_final_completion" /\ ret'.op = "get_final_completion") =>
        ret'.completion = ret.completion

C6_GetFinalCompletion == []C6_State /\ [][C6_Repeat]_vars

\* C6 witness: get_final_completion has returned the completion of the terminal
\* message pulled third, for the caller-supplied request id.
C6_Witness ==
    /\ kinds = << "chunk", "chunk", "complete" >>
    /\ ret.op = "get_final_completion"
    /\ ret.completion # None
    /\ ret.completion[1].id = "cmpl-abc"
    /\ request_id_arg = Some("cmpl-abc")

\* C7: get_final_completion is a pure query: a call pulls no message and leaves
\* the iterator's position, the running concatenation, the running counters and
\* the stored final completion unchanged.
C7_Frame ==
    ret'.op = "get_final_completion" =>
        UNCHANGED << transport, streamVars, historyVars, collectVars, clientVars >>

C7_GetFinalIsPure == [][C7_Frame]_vars

\* C7 witness: get_final_completion was called mid-iteration, with one message
\* pulled and the iterator still open.
C7_Witness ==
    /\ ret.op = "get_final_completion"
    /\ transport.state = "open"
    /\ Len(kinds) = 1

\* C8: the chunk yielded for a non-terminal message has no finish reason; the
\* chunk yielded for the terminal message has the message's finish reason, or
\* "stop" when that is empty; and the stored final completion has the finish
\* reason of the terminal chunk.
C8_FinishReason ==
    (ret.op = "next" /\ ret.outcome = "chunk") =>
        /\ last_msg[1].kind = "chunk" =>
              ret.chunk[1].choices[1].finish_reason = None
        /\ last_msg[1].kind = "complete" =>
              /\ ret.chunk[1].choices[1].finish_reason =
                    Some(IF last_msg[1].finish_reason = ""
                         THEN "stop" ELSE last_msg[1].finish_reason)
              /\ final_completion # None
              /\ Some(StoredFinal.choices[1].finish_reason) =
                    ret.chunk[1].choices[1].finish_reason

\* C8 witness: the terminal message omitted its finish reason and the terminal
\* chunk says "stop".
C8_Witness ==
    /\ ret.op = "next" /\ ret.outcome = "chunk"
    /\ kinds = << "chunk", "complete" >>
    /\ last_msg[1].finish_reason = ""
    /\ ret.chunk[1].choices[1].finish_reason = Some("stop")

\* C9: in the stored final completion, usage.prompt_tokens is the terminal
\* message's prompt_tokens when non-zero and otherwise that of the partial chunk
\* pulled last before it (0 if there was none); usage.cached_tokens likewise;
\* and usage.total_tokens = usage.prompt_tokens + usage.completion_tokens.
LastSeenPrompt ==
    IF chunk_before_terminal = None THEN 0 ELSE chunk_before_terminal[1].prompt_tokens
LastSeenCached ==
    IF chunk_before_terminal = None THEN 0 ELSE chunk_before_terminal[1].cached_tokens

C9_UsageReconciled ==
    final_completion # None =>
        /\ StoredFinal.usage # None
        /\ StoredFinal.usage[1].prompt_tokens =
              IF terminal_msg[1].prompt_tokens # 0
              THEN terminal_msg[1].prompt_tokens ELSE LastSeenPrompt
        /\ StoredFinal.usage[1].cached_tokens =
              IF terminal_msg[1].cached_tokens # 0
              THEN terminal_msg[1].cached_tokens ELSE LastSeenCached
        /\ StoredFinal.usage[1].total_tokens =
              StoredFinal.usage[1].prompt_tokens + StoredFinal.usage[1].completion_tokens

\* C9 witness: the terminal message reports no prompt tokens, the chunk before
\* it reported 1 prompt token and 1 cached token, the first chunk reported none.
C9_Witness ==
    /\ kinds = << "chunk", "chunk", "complete" >>
    /\ terminal_msg[1].prompt_tokens = 0
    /\ chunk_before_terminal[1].prompt_tokens = 1
    /\ chunk_before_terminal[1].cached_tokens = 1
    /\ StoredFinal.usage[1].prompt_tokens = 1
    /\ StoredFinal.usage[1].cached_tokens = 1
    /\ StoredFinal.usage[1].total_tokens = 4

\* C10: once create has started, the request id is the caller-supplied value
\* verbatim, else a generated one; the wire request, the accumulator, every
\* chunk yielded, the stored final completion and the completion returned by
\* create(stream=False) carry that same value; and no later step changes it.
C10_State ==
    transport.state # "idle" =>
        /\ request_id_arg # None => request_id = request_id_arg[1]
        /\ request_id_arg = None => request_id \in GeneratedIds
        /\ grpc_request # None /\ grpc_request[1].request_id = request_id
        /\ stream_request_id = request_id
        /\ ret.chunk # None => ret.chunk[1].id = request_id
        /\ ret.completion # None => ret.completion[1].id = request_id
        /\ final_completion # None => StoredFinal.id = request_id
        /\ CreateReturned => Returned.id = request_id

C10_Fixed ==
    transport.state # "idle" =>
        /\ request_id' = request_id
        /\ stream_request_id' = stream_request_id
        /\ grpc_request' = grpc_request

C10_RequestIdThreads == []C10_State /\ [][C10_Fixed]_vars

\* C10 witness: the caller supplied "cmpl-abc"; an empty chunk for an
\* unrecognised message and the stored final completion both carry it.
C10_Witness ==
    /\ request_id_arg = Some("cmpl-abc")
    /\ kinds = << "chunk", "complete", "none" >>
    /\ ret.op = "next" /\ ret.outcome = "chunk"
    /\ ret.chunk[1].id = "cmpl-abc"
    /\ StoredFinal.id = "cmpl-abc"
    /\ grpc_request[1].request_id = "cmpl-abc"


\* C11: once next() has yielded the chunk of a terminal message, no later
\* next() pulls a message or yields a chunk, whatever the transport still
\* delivers.
C11_TerminalEndsSequence ==
    [][~NoTerminalPulled => (kinds' = kinds /\ yielded_ids' = yielded_ids)]_vars

\* C12: the stored final completion is constructed once and retained: once it
\* is set, no later step (next(), further messages, exhaustion, failure,
\* get_final_completion) sets it back to None or replaces it by a different
\* result.
C12_FinalRetained ==
    [][final_completion # None => final_completion' = final_completion]_vars

\* C13: when the transport fails at a pull, that next() call and no earlier one
\* raises the error kind classified from the failure's status code (the timeout
\* kind for DEADLINE_EXCEEDED), carrying the code and the detail text; the
\* chunks already yielded, the running concatenation, the counters and the
\* stored final completion are the same after the failed call as before it.
C13_State ==
    (ret.op = "next" /\ ret.outcome = "raise") =>
        /\ transport.state = "failed"
        /\ ret.chunk = None
        /\ ret.error # None
        /\ transport.code = "DEADLINE_EXCEEDED" => ret.error[1].kind = "VLLMGrpcTimeoutError"
        /\ transport.code = "UNKNOWN" => ret.error[1].kind = "VLLMGrpcError"
        /\ ret.error[1].code = transport.code
        /\ ret.error[1].details = transport.details
C13_Frame ==
    (ret'.op = "next" /\ ret'.outcome = "raise") =>
        UNCHANGED << streamVars, kinds, pulled_ids, yielded_ids >>
C13_FailedPullKeepsState == []C13_State /\ [][C13_Frame]_vars

\* C13 witness: the chunks [1] and [2,3] were yielded, the third pull failed
\* with DEADLINE_EXCEEDED, and the running state still holds the three ids.
C13_Witness ==
    /\ kinds = << "chunk", "chunk" >>
    /\ ret.op = "next" /\ ret.outcome = "raise"
    /\ ret.error[1].kind = "VLLMGrpcTimeoutError"
    /\ accumulated_token_ids = << 1, 2, 3 >>
    /\ total_completion_tokens = 3
    /\ yielded_ids = << 1, 2, 3 >>


\* ------------------------------------------- health.abort next to a stream
\* An abort call may be repeated; the model issues at most MaxAborts of them.
MaxAborts == 1

\* Status codes an Abort call is made to fail with here.
AbortFailCodes == { "UNAVAILABLE" }

\* A unary call on the stub and its request message.
RpcCall(method, request) == [method |-> method, request |-> request]
AbortRequest(request_ids) == [request_ids |-> request_ids]
\* A grpc.RpcError: its code() and details().
RpcError(code, details) == [code |-> code, details |-> details]

\* The streamed request is still running: the iterator is open, a chunk has
\* been yielded and no terminal message has arrived (the situation in which
\* examples/06_abort_requests.py sends the abort).
InProgress == transport.state = "open" /\ kinds # << >> /\ NoTerminalPulled

\* (variant of Abort: the abort also closes the local response iterator)
Abort_ClosesStream(request_ids) ==
    /\ rpc_calls' = Append(rpc_calls, RpcCall("Abort", AbortRequest(request_ids)))
    /\ rpc_error' = None
    /\ facade_ret' = Ret("abort", "return", None, None, None)
    /\ transport' = Transport("exhausted", "", "")
    /\ UNCHANGED << clientVars, streamVars, collectVars, ret, historyVars, twoVars, buildVars, cliVars >>

\* Health.abort(request_ids) whose Abort call replies: None is returned.
Abort(request_ids) ==
    /\ rpc_calls' = Append(rpc_calls, RpcCall("Abort", AbortRequest(request_ids)))
    /\ rpc_error' = None
    /\ facade_ret' = Ret("abort", "return", None, None, None)
    /\ UNCHANGED << clientVars, transport, streamVars, collectVars, ret, historyVars, twoVars, buildVars, cliVars >>

\* Health.abort(request_ids) whose Abort call raises grpc.RpcError: the
\* classified error is raised.
AbortFails(request_ids, code, details) ==
    /\ rpc_calls' = Append(rpc_calls, RpcCall("Abort", AbortRequest(request_ids)))
    /\ rpc_error' = Some(RpcError(code, details))
    /\ facade_ret' = Ret("abort", "raise", None, None,
                         Some(exception_from_grpc_error(code, details)))
    /\ UNCHANGED << clientVars, transport, streamVars, collectVars, ret, historyVars, twoVars, buildVars, cliVars >>

NextAbort ==
    \/ \E arg \in RequestIdArgs, generated \in GeneratedIds : Create(arg, generated)
    \/ \E msg \in Messages : NextMessage(msg)
    \/ NextStop
    \/ \E code \in StreamFailCodes, details \in DetailTexts : NextError(code, details)
    \/ get_final_completion
    \/ InProgress /\ Len(rpc_calls) < MaxAborts /\ Abort(<< request_id >>)
    \/ \E code \in AbortFailCodes, details \in DetailTexts :
          InProgress /\ Len(rpc_calls) < MaxAborts
              /\ AbortFails(<< request_id >>, code, details)

SpecAbort == Init /\ [][NextAbort]_vars

\* C14: a health.abort(request_ids) call issued between the next() calls of a
\* running stream changes no state of the accumulator and consumes nothing of
\* its transport, so the stream keeps yielding what is still delivered; and
\* when, after the abort, the terminal message arrives with finish reason
\* "abort", next() yields (does not raise) a terminal chunk with that finish
\* reason and the stored final completion has finish_reason "abort" and all the
\* token ids received so far followed by the terminal output ids.
C14_Frame ==
    rpc_calls' # rpc_calls =>
        UNCHANGED << transport, streamVars, ret, kinds, pulled_ids, yielded_ids >>
C14_State ==
    (rpc_calls # << >> /\ OneTerminalLast /\ last_msg[1].finish_reason = "abort") =>
        /\ final_completion # None
        /\ StoredFinal.choices[1].finish_reason = "abort"
        /\ StoredFinal.choices[1].token_ids = pulled_ids
        /\ (ret.op = "next" /\ transport.state = "open") =>
              /\ ret.outcome = "chunk"
              /\ ret.chunk[1].choices[1].finish_reason = Some("abort")
              /\ ret.chunk[1].choices[1].delta_token_ids = last_msg[1].ids
C14_AbortIsOutOfBand == []C14_State /\ [][C14_Frame]_vars

\* C14 witness: the chunk [1] was yielded, the abort was sent, the chunk [2,3]
\* was still yielded, and the terminal message [1] with finish reason "abort"
\* has just been yielded.
C14_Witness ==
    /\ rpc_calls = << RpcCall("Abort", AbortRequest(<< request_id >>)) >>
    /\ facade_ret.outcome = "return"
    /\ kinds = << "chunk", "chunk", "complete" >>
    /\ ret.op = "next" /\ ret.outcome = "chunk"
    /\ ret.chunk[1].choices[1].finish_reason = Some("abort")
    /\ StoredFinal.choices[1].finish_reason = "abort"
    /\ StoredFinal.choices[1].token_ids = << 1, 2, 3, 1 >>


\* ------------------------------------------------ two independent streams
\* Each stream pulls at most MaxTwoMsgs messages.
MaxTwoMsgs == 2

\* The state of the single-stream model, which the two-stream model leaves alone.
oneVars == << clientVars, transport, streamVars, collectVars, ret, historyVars >>

\* Messages the iterators of the two streams deliver.
TwoMessages ==
    { ChunkMsg(<< 1 >>, 1, 0), ChunkMsg(<< 2, 3 >>, 1, 1),
      CompleteMsg(<< 1 >>, 0, 2, 0, "abort"), EmptyMsg }

\* The request ids the two create calls resolve to.
TwoRequestIds == [s \in StreamIds |-> IF s = 1 THEN "cmpl-abc" ELSE "cmpl-0f3a"]

\* Status codes a stream's iterator is made to fail with here.
TwoFailCodes == { "UNAVAILABLE" }

\* GenerateStream.__init__: the fields of a new accumulator.
GenerateStream(rid, model) ==
    [request_id |-> rid, model |-> model, final_completion |-> None,
     accumulated_token_ids |-> << >>, total_prompt_tokens |-> 0,
     total_completion_tokens |-> 0, cached_tokens |-> 0]

\* GenerateStream._process_response: the accumulator after msg is folded.
ProcessResponse(self, msg) ==
    [self EXCEPT
        !.accumulated_token_ids =
            IF msg.kind = "chunk" THEN AccumulatedAfterChunk(@, msg.ids) ELSE @,
        !.total_prompt_tokens = IF msg.kind = "chunk" THEN msg.prompt_tokens ELSE @,
        !.total_completion_tokens =
            IF msg.kind = "chunk" THEN CompletionTokensAfterChunk(@, msg.ids) ELSE @,
        !.cached_tokens = IF msg.kind = "chunk" THEN msg.cached_tokens ELSE @,
        !.final_completion =
            IF msg.kind = "complete"
            THEN Some(FinalCompletion(self.request_id, self.model,
                                      self.accumulated_token_ids, self.total_prompt_tokens,
                                      self.total_completion_tokens, self.cached_tokens, msg))
            ELSE @]

\* GenerateStream._process_response: the chunk returned for msg.
ResponseChunk(self, msg) ==
    ProcessedChunk(self.request_id, self.model,
                   ProcessResponse(self, msg).accumulated_token_ids, msg)

\* (variant of AccumulatedOf: the list is a class attribute, one for all streams)
AccumulatedOf_ClassAttribute(all, s) ==
    IF all[1] = None THEN all[s][1].accumulated_token_ids ELSE all[1][1].accumulated_token_ids

\* self._accumulated_token_ids of stream s: an attribute of that instance.
AccumulatedOf(all, s) == all[s][1].accumulated_token_ids

\* `self` as a method of stream s sees it.
SelfOf(all, s) == [all[s][1] EXCEPT !.accumulated_token_ids = AccumulatedOf(all, s)]

\* completions.create(stream=True) for stream s: a new GenerateStream wraps
\* the response iterator.
TwoCreate(s) ==
    /\ iterators[s] = "idle"
    /\ streams' = [streams EXCEPT ![s] = Some(GenerateStream(TwoRequestIds[s], model_name))]
    /\ iterators' = [iterators EXCEPT ![s] = "open"]
    /\ UNCHANGED << delivered, chunks, finals, oneVars, facadeVars, buildVars, cliVars >>

\* GenerateStream.__next__ of stream s when its iterator delivers msg.
TwoNextMessage(s, msg) ==
    /\ iterators[s] = "open"
    /\ Len(delivered[s]) < MaxTwoMsgs
    /\ streams' = [streams EXCEPT ![s] = Some(ProcessResponse(SelfOf(streams, s), msg))]
    /\ chunks' = [chunks EXCEPT ![s] = Append(@, ResponseChunk(SelfOf(streams, s), msg))]
    /\ delivered' = [delivered EXCEPT ![s] = Append(@, msg)]
    /\ UNCHANGED << iterators, finals, oneVars, facadeVars, buildVars, cliVars >>

\* GenerateStream.__next__ of stream s when its iterator is exhausted.
TwoNextStop(s) ==
    /\ iterators[s] = "open"
    /\ iterators' = [iterators EXCEPT ![s] = "exhausted"]
    /\ UNCHANGED << streams, delivered, chunks, finals, oneVars, facadeVars, buildVars, cliVars >>

\* GenerateStream.__next__ of stream s when its iterator raises grpc.RpcError;
\* the iterator's state records the kind of the error raised.
TwoNextError(s, code) ==
    /\ iterators[s] = "open"
    /\ iterators' = [iterators EXCEPT ![s] = ErrorKind(code)]
    /\ UNCHANGED << streams, delivered, chunks, finals, oneVars, facadeVars, buildVars, cliVars >>

\* GenerateStream.get_final_completion of stream s.
TwoGetFinal(s) ==
    /\ iterators[s] # "idle"
    /\ finals' = [finals EXCEPT ![s] = Some(SelfOf(streams, s).final_completion)]
    /\ UNCHANGED << streams, iterators, delivered, chunks, oneVars, facadeVars, buildVars, cliVars >>

NextTwo ==
    \/ \E s \in StreamIds : TwoCreate(s)
    \/ \E s \in StreamIds, msg \in TwoMessages : TwoNextMessage(s, msg)
    \/ \E s \in StreamIds : TwoNextStop(s)
    \/ \E s \in StreamIds, code \in TwoFailCodes : TwoNextError(s, code)
    \/ \E s \in StreamIds : TwoGetFinal(s)

SpecTwo == Init /\ [][NextTwo]_vars

\* A stream consumed alone: the accumulator and the chunks after the messages
\* msgs are pulled one after the other from a new GenerateStream.
RECURSIVE AloneStream(_, _, _)
AloneStream(rid, model, msgs) ==
    IF msgs = << >>
    THEN GenerateStream(rid, model)
    ELSE ProcessResponse(AloneStream(rid, model, SubSeq(msgs, 1, Len(msgs) - 1)),
                         msgs[Len(msgs)])
AloneChunks(rid, model, msgs) ==
    [i \in 1 .. Len(msgs) |->
        ResponseChunk(AloneStream(rid, model, SubSeq(msgs, 1, i - 1)), msgs[i])]

\* C15: two streams made by separate create(stream=True) calls share no
\* mutable state: under every interleaving of their next() and
\* get_final_completion() calls, each stream has yielded the chunks, holds the
\* accumulator and final completion, and gets from get_final_completion() the
\* result, that it has when the same messages are consumed by that stream alone.
C15_State ==
    \A s \in StreamIds :
        streams[s] # None =>
            /\ streams[s][1] = AloneStream(TwoRequestIds[s], model_name, delivered[s])
            /\ chunks[s] = AloneChunks(TwoRequestIds[s], model_name, delivered[s])
C15_Step ==
    \A s \in StreamIds :
        finals'[s] # finals[s] =>
            finals'[s] =
                Some(AloneStream(TwoRequestIds[s], model_name, delivered[s]).final_completion)
C15_StreamsIndependent == []C15_State /\ [][C15_Step]_vars

\* C15 witness: stream 1 pulled the chunk [1] and the terminal message, stream
\* 2 pulled the chunk [2,3] in between and then the terminal message; both
\* hold a final completion, with different token ids.
C15_Witness ==
    /\ Len(delivered[1]) = 2 /\ Len(delivered[2]) = 2
    /\ delivered[1][1] = ChunkMsg(<< 1 >>, 1, 0)
    /\ delivered[2][1] = ChunkMsg(<< 2, 3 >>, 1, 1)
    /\ streams[1][1].final_completion # None
    /\ streams[2][1].final_completion # None
    /\ streams[1][1].final_completion[1].choices[1].token_ids = << 1, 1 >>
    /\ streams[2][1].final_completion[1].choices[1].token_ids = << 2, 3, 1 >>
    /\ finals[1] = Some(streams[1][1].final_completion)
    /\ finals[2] = Some(streams[2][1].final_completion)


\* ------------------------------------------------ the facade operations
\* The facade operations are called at most MaxCalls times in a run.
MaxCalls == 2

\* The operations that make one call and build their result from its reply
\* (health.abort, which returns nothing, is Abort above).
FacadeOps ==
    { "completions.create", "embeddings.create", "models.retrieve",
      "health.check", "health.server_info" }

\* The stub method an operation calls.
FacadeMethod(op) ==
    CASE op = "completions.create" -> "Generate"
      [] op = "embeddings.create"  -> "Embed"
      [] op = "models.retrieve"    -> "GetModelInfo"
      [] op = "health.check"       -> "HealthCheck"
      [] op = "health.server_info" -> "GetServerInfo"
      [] op = "abort"              -> "Abort"

\* The type of the value an operation returns.
FacadeResult(op) ==
    CASE op = "completions.create" -> [type |-> "Completion"]
      [] op = "embeddings.create"  -> [type |-> "EmbeddingResponse"]
      [] op = "models.retrieve"    -> [type |-> "ModelInfo"]
      [] op = "health.check"       -> [type |-> "HealthCheckResponse"]
      [] op = "health.server_info" -> [type |-> "ServerInfo"]

\* The request ids an abort is called with.
AbortIdLists == { << "cmpl-abc" >> }

\* An operation whose call replies (for completions.create with stream=False:
\* whose response iterator runs to exhaustion): the result is returned.
FacadeReturns(op) ==
    /\ Len(rpc_calls) < MaxCalls
    /\ rpc_calls' = Append(rpc_calls, RpcCall(FacadeMethod(op), None))
    /\ rpc_error' = None
    /\ facade_ret' = Ret(op, "return", None, Some(FacadeResult(op)), None)
    /\ UNCHANGED << oneVars, twoVars, buildVars, cliVars >>

\* (variant of FacadeRaises: the call is retried once before the error is raised)
FacadeRaises_Retries(op, code, details) ==
    /\ Len(rpc_calls) < MaxCalls
    /\ rpc_calls' = rpc_calls \o << RpcCall(FacadeMethod(op), None),
                                    RpcCall(FacadeMethod(op), None) >>
    /\ rpc_error' = Some(RpcError(code, details))
    /\ facade_ret' = Ret(op, "raise", None, None,
                         Some(exception_from_grpc_error(code, details)))
    /\ UNCHANGED << oneVars, twoVars, buildVars, cliVars >>

\* An operation whose call (for completions.create with stream=False: whose
\* call or response iterator) raises grpc.RpcError: the except clause raises
\* the classified error.
FacadeRaises(op, code, details) ==
    /\ Len(rpc_calls) < MaxCalls
    /\ rpc_calls' = Append(rpc_calls, RpcCall(FacadeMethod(op), None))
    /\ rpc_error' = Some(RpcError(code, details))
    /\ facade_ret' = Ret(op, "raise", None, None,
                         Some(exception_from_grpc_error(code, details)))
    /\ UNCHANGED << oneVars, twoVars, buildVars, cliVars >>

NextFacade ==
    \/ \E op \in FacadeOps : FacadeReturns(op)
    \/ \E op \in FacadeOps, code \in StatusCodes, details \in DetailTexts :
          FacadeRaises(op, code, details)
    \/ \E ids \in AbortIdLists : Len(rpc_calls) < MaxCalls /\ Abort(ids)
    \/ \E ids \in AbortIdLists, code \in StatusCodes, details \in DetailTexts :
          Len(rpc_calls) < MaxCalls /\ AbortFails(ids, code, details)

SpecFacade == Init /\ [][NextFacade]_vars

\* The eight error kinds.
ErrorKinds ==
    { "VLLMGrpcUnavailableError", "VLLMGrpcTimeoutError", "VLLMGrpcInvalidArgumentError",
      "VLLMGrpcAbortedError", "VLLMGrpcUnimplementedError", "VLLMGrpcInternalError",
      "VLLMGrpcCancelledError", "VLLMGrpcError" }

\* The kind the mapping table gives a status code.
C16_TableKind(code) ==
    IF code = "UNAVAILABLE" THEN "VLLMGrpcUnavailableError"
    ELSE IF code = "DEADLINE_EXCEEDED" THEN "VLLMGrpcTimeoutError"
    ELSE IF code = "INVALID_ARGUMENT" THEN "VLLMGrpcInvalidArgumentError"
    ELSE IF code = "ABORTED" THEN "VLLMGrpcAbortedError"
    ELSE IF code = "UNIMPLEMENTED" THEN "VLLMGrpcUnimplementedError"
    ELSE IF code = "INTERNAL" THEN "VLLMGrpcInternalError"
    ELSE IF code = "CANCELLED" THEN "VLLMGrpcCancelledError"
    ELSE "VLLMGrpcError"

FacadeRaised == facade_ret.outcome = "raise"

\* C16: the classifier is total and deterministic on the status codes: the
\* error raised for a transport failure has the kind the table gives its code
\* (UNAVAILABLE, DEADLINE_EXCEEDED, INVALID_ARGUMENT, ABORTED, UNIMPLEMENTED,
\* INTERNAL, CANCELLED to their kinds, every other code to the generic kind),
\* which is one of the eight kinds; it carries the code's name and the
\* server's detail text; and two failures in a row with the same code are
\* given the same kind, whichever operations they come from.
C16_State ==
    FacadeRaised =>
        /\ rpc_error # None
        /\ facade_ret.error # None
        /\ facade_ret.error[1].kind = C16_TableKind(rpc_error[1].code)
        /\ facade_ret.error[1].kind \in ErrorKinds
        /\ facade_ret.error[1].code = rpc_error[1].code
        /\ facade_ret.error[1].details = rpc_error[1].details
C16_Step ==
    (FacadeRaised /\ FacadeRaised' /\ rpc_error'[1].code = rpc_error[1].code) =>
        facade_ret'.error[1].kind = facade_ret.error[1].kind
C16_ClassifierTotal == []C16_State /\ [][C16_Step]_vars

\* C16 witness: health.check failed with CANCELLED and then models.retrieve
\* failed with CANCELLED; both raised the cancelled kind.
C16_Witness ==
    /\ Len(rpc_calls) = 2
    /\ rpc_calls[1].method = "HealthCheck"
    /\ facade_ret.op = "models.retrieve"
    /\ FacadeRaised
    /\ rpc_error = Some(RpcError("CANCELLED", "boom"))
    /\ facade_ret.error[1].kind = "VLLMGrpcCancelledError"
    /\ facade_ret.error[1].code = "CANCELLED"

\* C17: every facade operation (completions.create without streaming,
\* embeddings.create, models.retrieve, health.check, health.server_info,
\* health.abort) whose call fails with a transport error has issued that call
\* exactly once, returns no result and raises the kind the classifier gives
\* the failure's code; an UNIMPLEMENTED reply to Embed is raised as the
\* unimplemented kind, not the generic one.
C17_State ==
    FacadeRaised =>
        /\ facade_ret.completion = None
        /\ facade_ret.chunk = None
        /\ facade_ret.error = Some(exception_from_grpc_error(rpc_error[1].code,
                                                             rpc_error[1].details))
        /\ (facade_ret.op = "embeddings.create" /\ rpc_error[1].code = "UNIMPLEMENTED") =>
              facade_ret.error[1].kind = "VLLMGrpcUnimplementedError"
C17_Step ==
    (FacadeRaised' /\ << rpc_calls, rpc_error, facade_ret >>' # << rpc_calls, rpc_error, facade_ret >>) =>
        /\ Len(rpc_calls') = Len(rpc_calls) + 1
        /\ rpc_calls'[Len(rpc_calls')].method = FacadeMethod(facade_ret'.op)
C17_FacadeFailsOnce == []C17_State /\ [][C17_Step]_vars

\* C17 witness: embeddings.create failed with UNIMPLEMENTED after one Embed
\* call, and raised the unimplemented kind.
C17_Witness ==
    /\ rpc_calls = << RpcCall("Embed", None) >>
    /\ facade_ret.op = "embeddings.create"
    /\ FacadeRaised
    /\ facade_ret.completion = None
    /\ facade_ret.error[1].kind = "VLLMGrpcUnimplementedError"


\* ------------------------------------------------------ the request builder
\* Prompt arguments, tagged with their Python type.
Prompt(type, text, ids) == [type |-> type, text |-> text, ids |-> ids]
SupportedPromptTypes == { "str", "list", "TokenizedInput" }
Prompts ==
    { Prompt("str", "Hello", << >>),
      Prompt("list", "", << >>), Prompt("list", "", << 1, 2 >>),
      Prompt("TokenizedInput", "", << 1, 2 >>), Prompt("TokenizedInput", "Hello", << 1, 2 >>),
      Prompt("tuple", "", << 1, 2 >>), Prompt("NoneType", "", << >>) }

\* _types.ChoiceConstraint and _types.StructuredOutputs (every field Optional).
ChoiceConstraint(choices) == [choices |-> choices]
StructuredOutputs(js, re, gr, st, jo, ch) ==
    [json_schema |-> js, regex |-> re, grammar |-> gr, structural_tag |-> st,
     json_object |-> jo, choice |-> ch]
OptionalStrs == { None, Some(""), Some("s") }
OptionalBools == { None, Some(FALSE), Some(TRUE) }
OptionalChoices == { None, Some(ChoiceConstraint(<< >>)), Some(ChoiceConstraint(<< "a", "b" >>)) }
StructuredOutputsArgs ==
    { None } \cup
    { Some(StructuredOutputs(js, re, gr, st, jo, ch)) :
        js \in OptionalStrs, re \in OptionalStrs, gr \in OptionalStrs, st \in OptionalStrs,
        jo \in OptionalBools, ch \in OptionalChoices }

\* The temperature argument, in tenths: None, 0.0, 0.7 and -5.0.
Temperatures == { None, Some(0), Some(7), Some(0 - 50) }
\* The max_tokens, logprobs, prompt_logprobs and seed arguments.
OptionalInts == { None, Some(0), Some(1) }

\* The arguments of a create call that the builder's dispatches read: every
\* StructuredOutputs value with the optional numbers omitted, and every choice
\* of the optional numbers without structured outputs.
BuildArgs ==
    [prompt : Prompts, request_id : { "cmpl-abc" }, stream : { TRUE },
     structured_outputs : StructuredOutputsArgs,
     temperature : { None }, max_tokens : { None }, logprobs : { None },
     prompt_logprobs : { None }, seed : { None }]
    \cup
    [prompt : Prompts, request_id : { "cmpl-abc" }, stream : { TRUE },
     structured_outputs : { None },
     temperature : Temperatures, max_tokens : OptionalInts, logprobs : OptionalInts,
     prompt_logprobs : OptionalInts, seed : OptionalInts]

\* Python truth values of the field types.
TruthyStr(o) == o # None /\ o[1] # ""
TruthyBool(o) == o # None /\ o[1]
TruthyObj(o) == o # None

\* The branch of the if/elif chain over a StructuredOutputs value that runs.
TakesJsonSchema(so) == TruthyStr(so.json_schema)
TakesRegex(so) == ~TakesJsonSchema(so) /\ TruthyStr(so.regex)
TakesGrammar(so) == ~TakesJsonSchema(so) /\ ~TruthyStr(so.regex) /\ TruthyStr(so.grammar)
TakesStructuralTag(so) ==
    /\ ~TakesJsonSchema(so) /\ ~TruthyStr(so.regex) /\ ~TruthyStr(so.grammar)
    /\ TruthyStr(so.structural_tag)
TakesJsonObject(so) ==
    /\ ~TakesJsonSchema(so) /\ ~TruthyStr(so.regex) /\ ~TruthyStr(so.grammar)
    /\ ~TruthyStr(so.structural_tag)
    /\ TruthyBool(so.json_object)

\* (variant of TakesChoice: `if` in place of the last `elif`)
TakesChoice_If(so) == TruthyObj(so.choice)

TakesChoice(so) ==
    /\ ~TakesJsonSchema(so) /\ ~TruthyStr(so.regex) /\ ~TruthyStr(so.grammar)
    /\ ~TruthyStr(so.structural_tag) /\ ~TruthyBool(so.json_object)
    /\ TruthyObj(so.choice)

\* vllm_engine_pb2.SamplingParams, its structured-output fields: a field that
\* was not assigned is None.
NoConstraint ==
    [json_schema |-> None, regex |-> None, grammar |-> None, structural_tag |-> None,
     json_object |-> None, choice |-> None]
SamplingConstraint(structured_outputs) ==
    IF structured_outputs = None
    THEN NoConstraint
    ELSE LET so == structured_outputs[1] IN
         [json_schema    |-> IF TakesJsonSchema(so) THEN so.json_schema ELSE None,
          regex          |-> IF TakesRegex(so) THEN so.regex ELSE None,
          grammar        |-> IF TakesGrammar(so) THEN so.grammar ELSE None,
          structural_tag |-> IF TakesStructuralTag(so) THEN so.structural_tag ELSE None,
          json_object    |-> IF TakesJsonObject(so) THEN so.json_object ELSE None,
          choice         |-> IF TakesChoice(so)
                             THEN Some(ChoiceConstraint(so.choice[1].choices))
                             ELSE None]

\* (variant of OptionalField: `if value:` in place of `if value is not None:`)
OptionalField_Truthy(value) == IF value # None /\ value[1] # 0 THEN value ELSE None

\* `if value is not None: sampling_params.field = value`: the field of the
\* request is assigned exactly when the argument is not None.
OptionalField(value) == IF value # None THEN value ELSE None

\* vllm_engine_pb2.SamplingParams as the builder fills it: the optional
\* numbers and the structured-output fields.
SamplingParams(args) ==
    [temperature     |-> OptionalField(args.temperature),
     max_tokens      |-> OptionalField(args.max_tokens),
     logprobs        |-> OptionalField(args.logprobs),
     prompt_logprobs |-> OptionalField(args.prompt_logprobs),
     seed            |-> OptionalField(args.seed)]
    @@ SamplingConstraint(args.structured_outputs)

\* vllm_engine_pb2.TokenizedInput
WireTokenized(original_text, input_ids) ==
    [original_text |-> original_text, input_ids |-> input_ids]

\* (variant of ListTokenized: the ids are also rendered into original_text)
ListTokenized_WithText(ids) == WireTokenized("tokens", ids)

\* TokenizedInput(input_ids=prompt): original_text keeps its default.
ListTokenized(ids) == WireTokenized("", ids)

\* The prompt dispatch: the text and the tokenized field of the request.
PromptText(prompt) == IF prompt.type = "str" THEN Some(prompt.text) ELSE None
PromptTokenized(prompt) ==
    IF prompt.type = "str" THEN None
    ELSE IF prompt.type = "TokenizedInput" THEN Some(WireTokenized(prompt.text, prompt.ids))
    ELSE IF prompt.type = "list" THEN Some(ListTokenized(prompt.ids))
    ELSE None

\* vllm_engine_pb2.GenerateRequest
GenerateRequest(rid, stream, sampling_params, text, tokenized) ==
    [request_id |-> rid, stream |-> stream, sampling_params |-> sampling_params,
     text |-> text, tokenized |-> tokenized]

\* Completions._build_generate_request
Completions_build_generate_request(args) ==
    GenerateRequest(args.request_id, args.stream, SamplingParams(args),
                    PromptText(args.prompt), PromptTokenized(args.prompt))

\* the module-level _build_generate_request that AsyncCompletions calls
build_generate_request(args) ==
    GenerateRequest(args.request_id, args.stream, SamplingParams(args),
                    PromptText(args.prompt), PromptTokenized(args.prompt))

\* The caller has chosen the arguments of one create call.
InitBuild ==
    /\ FacadeInit
    /\ TwoInit
    /\ OneInit
    /\ ctor = None
    /\ ClientInit
    /\ build_args \in { Some(args) : args \in BuildArgs }

\* Completions.create(stream=True): the request is built, Generate is called
\* with it and the stream is returned.
CompletionsCreate ==
    /\ build_args # None
    /\ rpc_calls = << >>
    /\ rpc_calls' = << RpcCall("Generate", Completions_build_generate_request(build_args[1])) >>
    /\ rpc_error' = None
    /\ facade_ret' = Ret("Completions.create", "return", None, None, None)
    /\ UNCHANGED << oneVars, twoVars, buildVars, cliVars >>

\* AsyncCompletions.create(stream=True)
AsyncCompletionsCreate ==
    /\ build_args # None
    /\ rpc_calls = << >>
    /\ rpc_calls' = << RpcCall("Generate", build_generate_request(build_args[1])) >>
    /\ rpc_error' = None
    /\ facade_ret' = Ret("AsyncCompletions.create", "return", None, None, None)
    /\ UNCHANGED << oneVars, twoVars, buildVars, cliVars >>

NextBuild ==
    \/ CompletionsCreate
    \/ AsyncCompletionsCreate

SpecBuild == InitBuild /\ [][NextBuild]_vars

\* The create call has been made; the wire request it sent, if any.
Created == facade_ret.op \in { "Completions.create", "AsyncCompletions.create" }
Sent == rpc_calls[1].request

\* The constraint fields in precedence order, which of them a StructuredOutputs
\* argument sets to a non-empty value, and which the wire request has populated.
ConstraintOrder ==
    << "json_schema", "regex", "grammar", "structural_tag", "json_object", "choice" >>
NonEmptyAt(so, i) ==
    CASE i = 1 -> so.json_schema \notin { None, Some("") }
      [] i = 2 -> so.regex \notin { None, Some("") }
      [] i = 3 -> so.grammar \notin { None, Some("") }
      [] i = 4 -> so.structural_tag \notin { None, Some("") }
      [] i = 5 -> so.json_object = Some(TRUE)
      [] i = 6 -> so.choice # None
PopulatedAt(sp, i) ==
    CASE i = 1 -> sp.json_schema # None
      [] i = 2 -> sp.regex # None
      [] i = 3 -> sp.grammar # None
      [] i = 4 -> sp.structural_tag # None
      [] i = 5 -> sp.json_object # None
      [] i = 6 -> sp.choice # None
ValueAt(r, i) ==
    CASE i = 1 -> r.json_schema
      [] i = 2 -> r.regex
      [] i = 3 -> r.grammar
      [] i = 4 -> r.structural_tag
      [] i = 5 -> r.json_object
      [] i = 6 -> r.choice

\* C18: for every combination of set and unset StructuredOutputs fields, the
\* wire request either builder makes has at most one constraint field
\* populated: the first non-empty field in the order json_schema, regex,
\* grammar, structural_tag, json_object, choice, with the caller's value (none
\* when no field is non-empty or no StructuredOutputs is passed); in
\* particular json_schema alone when json_schema and choice are both set.
C18_ConstraintPrecedence ==
    (Created /\ rpc_calls # << >>) =>
        LET so == build_args[1].structured_outputs
            sp == Sent.sampling_params
            populated == { i \in 1 .. 6 : PopulatedAt(sp, i) }
        IN  /\ Cardinality(populated) <= 1
            /\ so = None => populated = { }
            /\ so # None =>
                  LET nonEmpty == { i \in 1 .. 6 : NonEmptyAt(so[1], i) } IN
                  /\ nonEmpty = { } => populated = { }
                  /\ nonEmpty # { } =>
                        \E i \in nonEmpty :
                            /\ \A j \in nonEmpty : i <= j
                            /\ populated = { i }
                            /\ ValueAt(sp, i) = ValueAt(so[1], i)

\* C18 witness: AsyncCompletions.create with json_schema, json_object and
\* choice set sent a request whose only constraint field is json_schema.
C18_Witness ==
    /\ facade_ret.op = "AsyncCompletions.create"
    /\ build_args[1].structured_outputs =
          Some(StructuredOutputs(Some("s"), None, None, None, Some(TRUE),
                                 Some(ChoiceConstraint(<< "a", "b" >>))))
    /\ Sent.sampling_params.json_schema = Some("s")
    /\ Sent.sampling_params.json_object = None
    /\ Sent.sampling_params.choice = None

\* C19: the prompt dispatch of either builder: a str prompt populates only the
\* text field; a list prompt populates only the tokenized field, with its ids
\* and empty original_text; a TokenizedInput populates only the tokenized
\* field, with its ids and its original_text; so the request built for a
\* TokenizedInput equals, on every field except original_text, the request the
\* same builder makes for the list of the same ids with the other arguments equal.
C19_PromptDispatch ==
    (Created /\ rpc_calls # << >>) =>
        LET prompt == build_args[1].prompt
            asList == [build_args[1] EXCEPT !.prompt = Prompt("list", "", prompt.ids)]
            forList == IF facade_ret.op = "Completions.create"
                       THEN Completions_build_generate_request(asList)
                       ELSE build_generate_request(asList)
        IN  /\ prompt.type = "str" =>
                  (Sent.text = Some(prompt.text) /\ Sent.tokenized = None)
            /\ prompt.type = "list" =>
                  /\ Sent.text = None
                  /\ Sent.tokenized = Some([original_text |-> "", input_ids |-> prompt.ids])
            /\ prompt.type = "TokenizedInput" =>
                  /\ Sent.text = None
                  /\ Sent.tokenized =
                        Some([original_text |-> prompt.text, input_ids |-> prompt.ids])
                  /\ forList.tokenized # None
                  /\ [Sent EXCEPT !.tokenized[1].original_text = ""] =
                        [forList EXCEPT !.tokenized[1].original_text = ""]

\* C19 witness: Completions.create with TokenizedInput("Hello", [1,2]) sent a
\* request with no text and the tokenized field holding both.
C19_Witness ==
    /\ facade_ret.op = "Completions.create"
    /\ build_args[1].prompt = Prompt("TokenizedInput", "Hello", << 1, 2 >>)
    /\ Sent.text = None
    /\ Sent.tokenized = Some(WireTokenized("Hello", << 1, 2 >>))

\* C20: a create call whose prompt is neither a str, a list nor a
\* TokenizedInput raises an error to the caller and issues no Generate call.
C20_UnsupportedPromptFailsLocally ==
    (Created /\ build_args[1].prompt.type \notin SupportedPromptTypes) =>
        /\ facade_ret.outcome = "raise"
        /\ rpc_calls = << >>


\* C21: a create call with an out-of-range sampling parameter (temperature
\* below 0, such as -5.0) raises an error to the caller and issues no Generate
\* call.
C21_OutOfRangeFailsLocally ==
    (Created /\ build_args[1].temperature # None /\ build_args[1].temperature[1] < 0) =>
        /\ facade_ret.outcome = "raise"
        /\ rpc_calls = << >>

\* The request the builder of the create call that was made gives for args.
BuiltFor(args) ==
    IF facade_ret.op = "Completions.create"
    THEN Completions_build_generate_request(args)
    ELSE build_generate_request(args)

\* C22: each of temperature, max_tokens, logprobs, prompt_logprobs and seed is
\* present in the wire request, with the caller's value, if and only if the
\* caller passed a value other than None; a request built with an explicit
\* zero differs from the request built with that parameter omitted.
C22_OptionalPresence ==
    (Created /\ rpc_calls # << >>) =>
        LET args == build_args[1]
            sp == Sent.sampling_params
        IN  /\ sp.temperature = args.temperature
            /\ sp.max_tokens = args.max_tokens
            /\ sp.logprobs = args.logprobs
            /\ sp.prompt_logprobs = args.prompt_logprobs
            /\ sp.seed = args.seed
            /\ args.temperature = Some(0) => Sent # BuiltFor([args EXCEPT !.temperature = None])
            /\ args.max_tokens = Some(0) => Sent # BuiltFor([args EXCEPT !.max_tokens = None])
            /\ args.logprobs = Some(0) => Sent # BuiltFor([args EXCEPT !.logprobs = None])
            /\ args.prompt_logprobs = Some(0) =>
                  Sent # BuiltFor([args EXCEPT !.prompt_logprobs = None])
            /\ args.seed = Some(0) => Sent # BuiltFor([args EXCEPT !.seed = None])

\* C22 witness: Completions.create with temperature 0.0 and seed 0 and the
\* other optional numbers omitted sent a request holding exactly those two.
C22_Witness ==
    /\ facade_ret.op = "Completions.create"
    /\ build_args[1].temperature = Some(0) /\ build_args[1].seed = Some(0)
    /\ build_args[1].max_tokens = None
    /\ Sent.sampling_params.temperature = Some(0)
    /\ Sent.sampling_params.seed = Some(0)
    /\ Sent.sampling_params.max_tokens = None
    /\ Sent.sampling_params.logprobs = None


\* ------------------------------------------------------------ the client
\* The state of the other models, which the client model leaves alone
\* (model_name is the client's own field).
besideClient ==
    << request_id_arg, request_id, grpc_request, transport, streamVars, collectVars, ret,
       historyVars, facadeVars, twoVars, buildVars >>

\* DEFAULT_TIMEOUT, in seconds.
DEFAULT_TIMEOUT == 60

\* Constructor arguments (None: not passed) and environment values (None: the
\* variable is not set).
HostArgs == { None, Some(""), Some("gpu-1") }
PortArgs == { None, Some(0), Some(8000) }
TimeoutArgs == { None, Some(0), Some(5) }
EnvHosts == { None, Some("env-host") }
EnvPorts == { None, Some("8001") }
EnvTimeouts == { None, Some("30.0") }
Ctor(host, port, timeout, env_host, env_port, env_timeout) ==
    [host |-> host, port |-> port, timeout |-> timeout,
     env_host |-> env_host, env_port |-> env_port, env_timeout |-> env_timeout]
\* One setting is varied at a time, argument and environment, and one
\* construction sets everything.
CtorArgs ==
    { Ctor(h, None, None, e, None, None) : h \in HostArgs, e \in EnvHosts }
    \cup { Ctor(None, p, None, None, e, None) : p \in PortArgs, e \in EnvPorts }
    \cup { Ctor(None, None, t, None, None, e) : t \in TimeoutArgs, e \in EnvTimeouts }
    \cup { Ctor(Some("gpu-1"), Some(8000), Some(5), Some("env-host"), Some("8001"), Some("30.0")) }

\* int(...) and float(...) of the strings the environment holds here.
ParseInt(str) ==
    CASE str = "9000" -> 9000
      [] str = "8001" -> 8001
ParseFloat(str) ==
    CASE str = "60.0" -> 60
      [] str = "30.0" -> 30

\* os.environ.get(name, default)
EnvironGet(env, default) == IF env = None THEN default ELSE env[1]

\* The resolution by presence: `arg if arg is not None else fallback`.
OrElse_IsNotNone(arg, falsy, fallback) == IF arg # None THEN arg[1] ELSE fallback

\* `arg or fallback`: the fallback is taken when the argument is None or falsy.
OrElse(arg, falsy, fallback) == IF arg # None /\ arg[1] # falsy THEN arg[1] ELSE fallback

\* VLLMGrpcClient.__init__ / AsyncVLLMGrpcClient.__init__: the resolved settings.
ResolvedConfig(c) ==
    [host    |-> OrElse(c.host, "", EnvironGet(c.env_host, "localhost")),
     port    |-> OrElse(c.port, 0, ParseInt(EnvironGet(c.env_port, "9000"))),
     timeout |-> OrElse(c.timeout, 0, ParseFloat(EnvironGet(c.env_timeout, "60.0")))]

\* The caller has chosen the constructor arguments and the environment.
InitClient ==
    /\ FacadeInit
    /\ TwoInit
    /\ OneInit
    /\ build_args = None
    /\ ClientInit
    /\ ctor \in { Some(c) : c \in CtorArgs }

\* VLLMGrpcClient(...): the settings are resolved, the channel is created and
\* the model name starts empty.
Construct ==
    /\ config = None
    /\ config' = Some(ResolvedConfig(ctor[1]))
    /\ channel' = "open"
    /\ model_name' = ""
    /\ client_ret' = ClientRet("__init__", "return", FALSE)
    /\ UNCHANGED << ctor, block, last_check, now, wait, probes, besideClient >>

\* `with client:` is entered: __enter__ returns the client.
Enter ==
    /\ config # None
    /\ block.state = "out"
    /\ wait.pc \in { "idle", "done" }
    /\ block' = Block("in", "", FALSE)
    /\ client_ret' = ClientRet("__enter__", "return", FALSE)
    /\ last_check' = None
    /\ UNCHANGED << ctor, config, channel, model_name, now, wait, probes, besideClient >>

\* The ways the body of the block is left.
BlockExits == { "normal", "return", "exception" }

\* (variant of Exit: the channel is closed only when no exception is in flight)
Exit_SkipsOnException(how) ==
    /\ block.state = "in"
    /\ wait.pc \in { "idle", "done" }
    /\ channel' = IF how = "exception" THEN channel ELSE "closed"
    /\ block' = Block("exited", how, how = "exception")
    /\ client_ret' = ClientRet("__exit__", "return", FALSE)
    /\ last_check' = None
    /\ UNCHANGED << ctor, config, model_name, now, wait, probes, besideClient >>

\* The body of the block is left in the way `how`: __exit__ calls close(),
\* which closes the channel, and returns None, so that an exception in
\* flight is raised again after it.
Exit(how) ==
    /\ block.state = "in"
    /\ wait.pc \in { "idle", "done" }
    /\ channel' = "closed"
    /\ block' = Block("exited", how, how = "exception")
    /\ client_ret' = ClientRet("__exit__", "return", FALSE)
    /\ last_check' = None
    /\ UNCHANGED << ctor, config, model_name, now, wait, probes, besideClient >>

\* The outcomes of a health.check call: a reply with its healthy flag, a
\* classified transport error, or another exception.
CheckOutcome(kind, healthy, code) == [kind |-> kind, healthy |-> healthy, code |-> code]
CheckOutcomes ==
    { CheckOutcome("reply", h, "") : h \in BOOLEAN }
    \cup { CheckOutcome("rpc_error", FALSE, code) : code \in StatusCodes }
    \cup { CheckOutcome("exception", FALSE, "") }

\* (variant of IsHealthyOf: any reply counts as healthy)
IsHealthyOf_AnyReply(outcome) == outcome.kind = "reply"

\* is_healthy: response.healthy, or False under `except Exception`.
IsHealthyOf(outcome) == IF outcome.kind = "reply" THEN outcome.healthy ELSE FALSE

\* client.is_healthy() called by the user, before any wait_for_ready;
\* last_check is the outcome of the health.check under the call in client_ret.
IsHealthy(outcome) ==
    /\ config # None
    /\ wait.pc = "idle"
    /\ last_check' = Some(outcome)
    /\ client_ret' = ClientRet("is_healthy", "return", IsHealthyOf(outcome))
    /\ UNCHANGED << ctor, config, channel, block, model_name, now, wait, probes, besideClient >>

\* Arguments of wait_for_ready and the time a probe takes, in seconds.
WaitTimeouts == { 0, 2, 3 }
PollIntervals == { 1, 2 }
ProbeDurations == { 0, 1 }
\* model_path values models.retrieve returns.
ModelPaths == { "mistral" }

\* (variant of ShouldPoll: `<=` in place of `<`)
ShouldPoll_Inclusive(elapsed, timeout) == elapsed <= timeout

\* while time.time() - start_time < timeout
ShouldPoll(elapsed, timeout) == elapsed < timeout

\* wait_for_ready(timeout, poll_interval) is called: start_time is taken.
WaitStart(timeout, poll_interval) ==
    /\ config # None
    /\ wait.pc = "idle"
    /\ wait' = Wait("test", now, timeout, poll_interval, << >>)
    /\ probes' = << >>
    /\ client_ret' = ClientRet("wait_for_ready", "running", FALSE)
    /\ last_check' = None
    /\ UNCHANGED << ctor, config, channel, block, model_name, now, besideClient >>

\* The loop condition holds: an is_healthy probe is started.
WaitProbe ==
    /\ wait.pc = "test"
    /\ ShouldPoll(now - wait.start_time, wait.timeout)
    /\ wait' = [wait EXCEPT !.pc = "probe"]
    /\ probes' = Append(probes, [elapsed |-> now - wait.start_time, healthy |-> FALSE])
    /\ UNCHANGED << ctor, config, channel, block, model_name, client_ret, last_check, now,
                    besideClient >>

\* The loop condition fails: False is returned.
WaitTimesOut ==
    /\ wait.pc = "test"
    /\ ~ShouldPoll(now - wait.start_time, wait.timeout)
    /\ wait' = [wait EXCEPT !.pc = "done"]
    /\ client_ret' = ClientRet("wait_for_ready", "return", FALSE)
    /\ UNCHANGED << ctor, config, channel, block, model_name, last_check, now, probes,
                    besideClient >>

\* The probe ends after d seconds with the outcome of its health.check.
WaitProbeEnds(outcome, d) ==
    /\ wait.pc = "probe"
    /\ now' = now + d
    /\ probes' = [probes EXCEPT ![Len(probes)].healthy = IsHealthyOf(outcome)]
    /\ wait' = [wait EXCEPT !.pc = IF IsHealthyOf(outcome) THEN "refresh" ELSE "sleep"]
    /\ UNCHANGED << ctor, config, channel, block, model_name, client_ret, last_check,
                    besideClient >>

\* After a healthy probe models.retrieve succeeds: the model name is
\* stored and True is returned.
WaitRefreshed(model_path) ==
    /\ wait.pc = "refresh"
    /\ model_name' = model_path
    /\ wait' = [wait EXCEPT !.pc = "done", !.refreshes = Append(@, Some(model_path))]
    /\ client_ret' = ClientRet("wait_for_ready", "return", TRUE)
    /\ UNCHANGED << ctor, config, channel, block, last_check, now, probes, besideClient >>

\* After a healthy probe models.retrieve raises: the exception is passed
\* over and True is returned.
WaitRefreshFails ==
    /\ wait.pc = "refresh"
    /\ wait' = [wait EXCEPT !.pc = "done", !.refreshes = Append(@, None)]
    /\ client_ret' = ClientRet("wait_for_ready", "return", TRUE)
    /\ UNCHANGED << ctor, config, channel, block, model_name, last_check, now, probes,
                    besideClient >>

\* time.sleep(poll_interval) after an unhealthy probe.
WaitSleeps ==
    /\ wait.pc = "sleep"
    /\ now' = now + wait.poll_interval
    /\ wait' = [wait EXCEPT !.pc = "test"]
    /\ UNCHANGED << ctor, config, channel, block, model_name, client_ret, last_check, probes,
                    besideClient >>

\* The steps of a running wait_for_ready call.
WaitNext ==
    \/ WaitProbe
    \/ WaitTimesOut
    \/ \E outcome \in CheckOutcomes, d \in ProbeDurations : WaitProbeEnds(outcome, d)
    \/ \E model_path \in ModelPaths : WaitRefreshed(model_path)
    \/ WaitRefreshFails
    \/ WaitSleeps

NextClient ==
    \/ Construct
    \/ Enter
    \/ \E how \in BlockExits : Exit(how)
    \/ \E outcome \in CheckOutcomes : IsHealthy(outcome)
    \/ \E timeout \in WaitTimeouts, poll_interval \in PollIntervals :
          WaitStart(timeout, poll_interval)
    \/ WaitNext

\* A running wait_for_ready call goes on: its probes and its sleep return.
SpecClient == InitClient /\ [][NextClient]_vars /\ WF_vars(WaitNext)


\* C23: is_healthy never propagates a failure: whatever the health check
\* under it does (a transport error of any status code, another exception,
\* a reply), it returns a boolean, the reply's healthy flag after a reply
\* and false after every failure.
C23_IsHealthyNeverRaises ==
    client_ret.op = "is_healthy" =>
        /\ last_check # None
        /\ client_ret.outcome = "return"
        /\ client_ret.value \in BOOLEAN
        /\ last_check[1].kind = "reply" => client_ret.value = last_check[1].healthy
        /\ last_check[1].kind # "reply" => client_ret.value = FALSE

\* is_healthy has returned false after an UNAVAILABLE transport error.
C23_Witness ==
    /\ client_ret = ClientRet("is_healthy", "return", FALSE)
    /\ last_check = Some(CheckOutcome("rpc_error", FALSE, "UNAVAILABLE"))


\* wait_for_ready has returned `value`.
WaitReturned(value) == client_ret = ClientRet("wait_for_ready", "return", value)

\* Some probe of the running or finished wait_for_ready call was healthy.
SomeProbeHealthy == \E i \in 1..Len(probes) : probes[i].healthy

\* The state part of C24: every probe is started while the elapsed time is
\* below the timeout; the call returns true exactly when a probe was healthy
\* and false only when the timeout has elapsed; a true result comes after
\* exactly one refresh attempt, which stores the retrieved model path when it
\* succeeds and leaves the model name as it was when it fails; a false
\* result comes after none.
C24_State ==
    /\ \A i \in 1..Len(probes) : probes[i].elapsed < wait.timeout
    /\ Len(wait.refreshes) <= 1
    /\ \A value \in BOOLEAN : WaitReturned(value) =>
          /\ wait.pc = "done"
          /\ value = SomeProbeHealthy
          /\ ~value => now - wait.start_time >= wait.timeout
          /\ ~value => wait.refreshes = << >> /\ model_name = ""
          /\ value => Len(wait.refreshes) = 1
          /\ (value /\ wait.refreshes[1] # None) => model_name = wait.refreshes[1][1]
          /\ (value /\ wait.refreshes[1] = None) => model_name = ""

\* C24: wait_for_ready(timeout, poll_interval) terminates, and returns true
\* exactly when one of its is_healthy probes, started while the elapsed time
\* was below the timeout, returned true; it returns false when the timeout
\* elapses with no healthy probe. After a healthy probe it attempts one
\* refresh of the model name: the retrieved path is stored when it
\* succeeds, the name is unchanged when it fails, and the result is true in
\* both cases.
C24_WaitForReady == []C24_State /\ ((wait.pc # "idle") ~> (wait.pc = "done"))

\* wait_for_ready has returned true after an unhealthy probe, a sleep, a
\* healthy probe and a successful refresh.
C24_Witness ==
    /\ WaitReturned(TRUE)
    /\ Len(probes) = 2
    /\ ~probes[1].healthy
    /\ probes[2].healthy
    /\ model_name = "mistral"


\* C25: scoped use releases the channel on every exit path: once the block
\* has been left, by normal completion, by an early return or by an
\* exception, the channel has been closed, and an exception that left the
\* block still reaches the caller.
C25_ScopedRelease ==
    block.state = "exited" =>
        /\ block.how \in BlockExits
        /\ channel = "closed"
        /\ block.raised = (block.how = "exception")

\* The block has been left by an exception: the channel is closed and the
\* exception is raised to the caller.
C25_Witness == block = Block("exited", "exception", TRUE) /\ channel = "closed"


\* The settings when every argument other than None wins over the
\* environment, and the environment over the default.
PresenceConfig(c) ==
    [host    |-> OrElse_IsNotNone(c.host, "", EnvironGet(c.env_host, "localhost")),
     port    |-> OrElse_IsNotNone(c.port, 0, ParseInt(EnvironGet(c.env_port, "9000"))),
     timeout |-> OrElse_IsNotNone(c.timeout, 0, ParseFloat(EnvironGet(c.env_timeout, "60.0")))]

\* C26: for each of host, port and default timeout the value used is the
\* constructor argument whenever one is given (any value other than None,
\* port 0, timeout 0.0 and an empty host included), otherwise the environment
\* variable when it is set, otherwise the default (localhost, 9000, 60 s).
C26_ExplicitArgumentWins == config # None => config[1] = PresenceConfig(ctor[1])


\* ------------------------------------------------- the single stream, again
IsPrefix(s, t) == Len(s) <= Len(t) /\ SubSeq(t, 1, Len(s)) = s

\* One step of the stream goes forward only: the pulled messages and the
\* yielded ids are extended, never cut or restarted; a step pulls at most one
\* message, and the step that pulls a message is the one next() call that
\* yields its chunk.
C27_Forward ==
    /\ IsPrefix(kinds, kinds')
    /\ IsPrefix(pulled_ids, pulled_ids')
    /\ IsPrefix(yielded_ids, yielded_ids')
    /\ Len(kinds') <= Len(kinds) + 1
    /\ kinds' # kinds => ret'.op = "next" /\ ret'.outcome = "chunk"
    /\ (ret'.outcome = "chunk" /\ ret' # ret) => Len(kinds') = Len(kinds) + 1
    /\ transport.state # "idle" => transport'.state # "idle"

\* After next() has signalled exhaustion, a step yields no chunk and changes
\* neither the running state nor the stored final completion.
C27_AfterExhaustion ==
    transport.state = "exhausted" =>
        /\ transport'.state = "exhausted"
        /\ ret'.outcome # "chunk"
        /\ UNCHANGED << streamVars, historyVars >>

\* C27: the accumulator is forward-only and single-pass: no operation
\* rewinds or restarts the stream, each transport message is pulled and
\* turned into a chunk at most once, and after next() has once signalled
\* exhaustion every further next() yields no chunk and changes neither the
\* running totals nor the stored final completion.
C27_SinglePass == [][C27_Forward /\ C27_AfterExhaustion]_vars

\* next() has signalled exhaustion after a chunk and a terminal message
\* were pulled, and the running concatenation is not empty.
C27_Witness ==
    /\ transport.state = "exhausted"
    /\ ret.op = "next" /\ ret.outcome = "StopIteration"
    /\ kinds = << "chunk", "complete" >>
    /\ accumulated_token_ids # << >>


\* C28: processing the terminal message folds its output ids as a
\* non-terminal message's ids are folded: once the one terminal message has
\* been pulled last, the running concatenation equals the stored final
\* completion's token ids (it ends with the terminal output ids) and the
\* running completion-token counter equals its usage.completion_tokens.
C28_TerminalFolds ==
    OneTerminalLast =>
        /\ final_completion # None
        /\ accumulated_token_ids = StoredFinal.choices[1].token_ids
        /\ total_completion_tokens = StoredFinal.usage[1].completion_tokens


\* C29: under every sequence of messages, failures and exhaustion, the
\* running completion-token counter equals the length of the running
\* concatenation, and a stored final completion has usage.completion_tokens
\* equal to the number of its token ids and usage.total_tokens equal to
\* usage.prompt_tokens + usage.completion_tokens.
C29_CountersConsistent ==
    /\ total_completion_tokens = Len(accumulated_token_ids)
    /\ final_completion # None =>
          /\ StoredFinal.usage # None
          /\ StoredFinal.usage[1].completion_tokens = Len(StoredFinal.choices[1].token_ids)
          /\ StoredFinal.usage[1].total_tokens =
                StoredFinal.usage[1].prompt_tokens + StoredFinal.usage[1].completion_tokens

\* A chunk of two ids and a terminal message have been pulled, the transport
\* has failed afterwards, and the stored final completion counts its ids.
C29_Witness ==
    /\ kinds = << "chunk", "complete" >>
    /\ transport.state = "failed"
    /\ Len(accumulated_token_ids) = 2
    /\ final_completion # None
    /\ StoredFinal.usage[1].completion_tokens > 2


\* The step pulls a message that is neither a partial chunk nor a terminal
\* completion.
PullsUnrecognised == kinds' = Append(kinds, "none")

\* C30: a pulled message that is neither a partial chunk nor a terminal
\* completion makes next() yield a chunk that carries the request id and the
\* model name, with an empty choices list and no usage, and leaves the
\* running concatenation, the running counters and the stored final
\* completion unchanged.
C30_UnrecognisedMessage ==
    [][PullsUnrecognised =>
          /\ ret'.op = "next" /\ ret'.outcome = "chunk"
          /\ ret'.chunk # None
          /\ ret'.chunk[1].id = request_id
          /\ ret'.chunk[1].model = model_name
          /\ ret'.chunk[1].choices = << >>
          /\ ret'.chunk[1].usage = None
          /\ yielded_ids' = yielded_ids
          /\ UNCHANGED streamVars]_vars

\* An unrecognised message has been pulled after a chunk of two ids and a
\* terminal message: the empty chunk was yielded and the running state kept.
C30_Witness ==
    /\ kinds = << "chunk", "complete", "none" >>
    /\ ret.op = "next" /\ ret.outcome = "chunk"
    /\ ret.chunk[1].choices = << >>
    /\ ret.chunk[1].usage = None
    /\ Len(accumulated_token_ids) = 2
    /\ final_completion # None

====
